---- MODULE Spec2Model ----
(***************************************************************************)
(* Model of the IPO tracker's reconciliation pipeline:                     *)
(*   scripts/fetch_ipos.py            merge_ipo_data, filter_valid_ipos,   *)
(*                                    main                                 *)
(*   scripts/process_pending_ipos.py  get_ipo_price_yfinance,              *)
(*                                    format_for_database, main            *)
(*   ipo_dashboard.py                 check_stock_status                   *)
(*                                                                         *)
(* Encoding of values.                                                     *)
(*   - A date string is a natural number: 0 is the empty string "" (also   *)
(*     the value of a missing key), 1..MaxDate are ISO dates  in calendar  *)
(*     order (ISO dates compare as strings the way they compare as dates), *)
(*     BadDate is a non-empty string that strptime rejects.                *)
(*   - A price is an integer number of mills (1/1000 dollar), so that      *)
(*     round(x, 2) is a real conversion to whole cents.                    *)
(*   - A store record keeps the fields the code reads: ticker, ipo_date    *)
(*     and ipo_price.  name, exchange and sector are copied from the       *)
(*     payload and never read by the pipeline.                             *)
(***************************************************************************)
EXTENDS Integers, Sequences, FiniteSets, TLC

VARIABLES store, backup, run, out, session

vars == <<store, backup, run, out, session>>

----------------------------------------------------------------------------
(* Bounds *)

MaxBatch == 2
MaxPending == 2
MaxExisting == 2
MaxDate == 2

----------------------------------------------------------------------------
(* Value domains *)

Symbols == {"", "AB", "ab", "CD"}

\* str.upper() on the symbols of the model
Upper(s) == CASE s = "ab" -> "AB"
              [] s = " ab" -> " AB"
              [] OTHER -> s

Dates == 1..MaxDate

\* a non-empty string that is not a %Y-%m-%d date ("TBD")
BadDate == MaxDate + 1

\* Python None in a price or date field; also any other non-numeric price,
\* on which `> 0` raises TypeError
None == 0 - 1

\* round(float(x), 2) on a price in mills: the nearest whole cent, in mills
\* (the prices of the model are never half a cent away from two cents)
Round2(m) == ((m + 5) \div 10) * 10

----------------------------------------------------------------------------
(* Sequence helpers *)

RECURSIVE SeqsUpTo(_, _)
SeqsUpTo(S, n) ==
    IF n = 0 THEN {<<>>}
    ELSE LET shorter == SeqsUpTo(S, n - 1)
         IN  shorter \cup {Append(s, x) : s \in {t \in shorter : Len(t) = n - 1}, x \in S}

Range(s) == {s[i] : i \in 1..Len(s)}

----------------------------------------------------------------------------
(* scripts/fetch_ipos.py *)

\* one record of the FMP ipo_calendar response: complete ones, and ones
\* without a symbol, without a date, without a price (0 is the default of
\* ipo.get("price", 0)) and with a non-numeric price
FmpItems ==
    [symbol : Symbols \ {""}, date : Dates, price : {1000}]
      \cup [symbol : {""}, date : {1}, price : {1000}]
      \cup [symbol : {"AB"}, date : {0}, price : {1000}]
      \cup [symbol : {"AB"}, date : {1}, price : {0, None}]

RECURSIVE InsertByDateDescUnstable(_, _)
InsertByDateDescUnstable(sorted, r) ==
    IF sorted = <<>> THEN <<r>>
    ELSE IF Head(sorted).ipo_date > r.ipo_date
         THEN <<Head(sorted)>> \o InsertByDateDescUnstable(Tail(sorted), r)
         ELSE <<r>> \o sorted

\* list.sort(key=lambda x: x.get("ipo_date", ""), reverse=True): stable,
\* descending; each element goes after every element whose key is >= its own
RECURSIVE InsertByDateDesc(_, _)
InsertByDateDesc(sorted, r) ==
    IF sorted = <<>> THEN <<r>>
    ELSE IF Head(sorted).ipo_date >= r.ipo_date
         THEN <<Head(sorted)>> \o InsertByDateDesc(Tail(sorted), r)
         ELSE <<r>> \o sorted

RECURSIVE SortByDateDesc(_)
SortByDateDesc(s) ==
    IF s = <<>> THEN <<>>
    ELSE InsertByDateDesc(SortByDateDesc(SubSeq(s, 1, Len(s) - 1)), s[Len(s)])

\* the record merge_ipo_data builds from one calendar item
FmpRecord(ipo) ==
    [ticker |-> ipo.symbol, ipo_date |-> ipo.date, ipo_price |-> ipo.price]

RECURSIVE MergeLoopNoAdd(_, _, _)
MergeLoopNoAdd(merged, existing_tickers, new_ipos) ==
    IF new_ipos = <<>> THEN merged
    ELSE LET ipo == Head(new_ipos)
         IN  IF ipo.symbol # "" /\ ipo.symbol \notin existing_tickers
             THEN MergeLoopNoAdd(Append(merged, FmpRecord(ipo)),
                                 existing_tickers,
                                 Tail(new_ipos))
             ELSE MergeLoopNoAdd(merged, existing_tickers, Tail(new_ipos))

\* the loop of merge_ipo_data: the list before the final sort
RECURSIVE MergeLoop(_, _, _)
MergeLoop(merged, existing_tickers, new_ipos) ==
    IF new_ipos = <<>> THEN merged
    ELSE LET ipo == Head(new_ipos)
         IN  IF ipo.symbol # "" /\ ipo.symbol \notin existing_tickers
             THEN MergeLoop(Append(merged, FmpRecord(ipo)),
                            existing_tickers \cup {ipo.symbol},
                            Tail(new_ipos))
             ELSE MergeLoop(merged, existing_tickers, Tail(new_ipos))

MergeUnsorted(existing, new_ipos) ==
    MergeLoop(existing, {existing[i].ticker : i \in 1..Len(existing)}, new_ipos)

merge_ipo_data(existing, new_ipos) ==
    SortByDateDesc(MergeUnsorted(existing, new_ipos))

\* the condition of filter_valid_ipos, evaluated left to right
IsValidIpo(ipo) ==
    /\ ipo.ticker # ""
    /\ ipo.ipo_date # 0
    /\ ipo.ipo_price > 0

\* the comparison `ipo_price > 0` is reached and raises TypeError
FilterRaises(ipos) ==
    \E i \in 1..Len(ipos) :
        /\ ipos[i].ticker # ""
        /\ ipos[i].ipo_date # 0
        /\ ipos[i].ipo_price = None

filter_valid_ipos(ipos) == SelectSeq(ipos, IsValidIpo)

----------------------------------------------------------------------------
(* scripts/process_pending_ipos.py *)

\* what one stock.history(...) call gives back: an empty frame, an exception,
\* or a frame whose first row has the given date, Open and Close
EmptyHist == [kind |-> "empty", date |-> 0, Open |-> 0, Close |-> 0]
RaiseHist == [kind |-> "raise", date |-> 0, Open |-> 0, Close |-> 0]
RowHists  == [kind : {"rows"}, date : Dates, Open : {0, 4, 1006}, Close : {0, 1234}]
Hists     == {EmptyHist, RaiseHist} \cup RowHists

\* the data source as seen by one call of get_ipo_price_yfinance: the answers
\* to the 14-day window query, the calendar-month query and the max query
Providers == [h14 : Hists, hmonth : Hists, hmax : Hists]

PriceResult(ticker, ipo_date, actual, price, source, ok, err) ==
    [ticker |-> ticker, ipo_date |-> ipo_date,
     actual_first_trade_date |-> actual, ipo_price |-> price,
     price_source |-> source, success |-> ok, error |-> err]

\* the result as initialised, with the error set
Failure(ticker, ipo_date, err) ==
    PriceResult(ticker, ipo_date, None, None, "None", FALSE, err)

\* the result filled in from the first row of the frame h
Success(ticker, ipo_date, h, price, source) ==
    PriceResult(ticker, ipo_date, h.date, Round2(price), source, TRUE, "None")

\* Strategy 3: the max period, Open before Close
Strategy3(ticker, ipo_date, prov) ==
    IF prov.hmax.kind = "raise" THEN Failure(ticker, ipo_date, "exception")
    ELSE IF prov.hmax.kind = "rows" /\ prov.hmax.Open > 0
         THEN Success(ticker, ipo_date, prov.hmax, prov.hmax.Open, "first_available_open")
    ELSE IF prov.hmax.kind = "rows" /\ prov.hmax.Close > 0
         THEN Success(ticker, ipo_date, prov.hmax, prov.hmax.Close, "first_available_close")
    ELSE Failure(ticker, ipo_date, "No price data available")

\* Strategy 2: the calendar month, Close only
Strategy2(ticker, ipo_date, prov) ==
    IF prov.hmonth.kind = "raise" THEN Failure(ticker, ipo_date, "exception")
    ELSE IF prov.hmonth.kind = "rows" /\ prov.hmonth.Close > 0
         THEN Success(ticker, ipo_date, prov.hmonth, prov.hmonth.Close, "month_close_price")
    ELSE Strategy3(ticker, ipo_date, prov)

Strategy1CloseFirst(ticker, ipo_date, prov) ==
    IF prov.h14.kind = "raise" THEN Failure(ticker, ipo_date, "exception")
    ELSE IF prov.h14.kind = "rows" /\ prov.h14.Close > 0
         THEN Success(ticker, ipo_date, prov.h14, prov.h14.Close, "close_price")
    ELSE IF prov.h14.kind = "rows" /\ prov.h14.Open > 0
         THEN Success(ticker, ipo_date, prov.h14, prov.h14.Open, "open_price")
    ELSE Strategy2(ticker, ipo_date, prov)

\* Strategy 1: the 14 days from the IPO date, Open before Close
Strategy1(ticker, ipo_date, prov) ==
    IF prov.h14.kind = "raise" THEN Failure(ticker, ipo_date, "exception")
    ELSE IF prov.h14.kind = "rows" /\ prov.h14.Open > 0
         THEN Success(ticker, ipo_date, prov.h14, prov.h14.Open, "open_price")
    ELSE IF prov.h14.kind = "rows" /\ prov.h14.Close > 0
         THEN Success(ticker, ipo_date, prov.h14, prov.h14.Close, "close_price")
    ELSE Strategy2(ticker, ipo_date, prov)

get_ipo_price_yfinance(ticker, ipo_date, prov) ==
    IF ipo_date \notin Dates
    THEN Failure(ticker, ipo_date, "ValueError")    \* datetime.strptime raises
    ELSE Strategy1(ticker, ipo_date, prov)

\* HistoryCalls with the three queries made up front
HistoryCallsEager(ipo_date, prov) ==
    IF ipo_date \notin Dates THEN <<>>
    ELSE <<"14d", "month", "max">>

\* the stock.history calls get_ipo_price_yfinance makes, in order: the 14
\* days from the IPO date, the calendar month, the max period; a call that
\* raises or a step that returns ends them
HistoryCalls(ipo_date, prov) ==
    IF ipo_date \notin Dates THEN <<>>
    ELSE IF \/ prov.h14.kind = "raise"
            \/ prov.h14.kind = "rows" /\ (prov.h14.Open > 0 \/ prov.h14.Close > 0)
         THEN <<"14d">>
    ELSE IF \/ prov.hmonth.kind = "raise"
            \/ prov.hmonth.kind = "rows" /\ prov.hmonth.Close > 0
         THEN <<"14d", "month">>
    ELSE <<"14d", "month", "max">>

\* x or y on date strings
OrElse(x, y) == IF x # None /\ x # 0 THEN x ELSE y

\* format_for_database with the date and the price of the pending entry
format_for_database_Nominal(pending_entry, price_info) ==
    [ticker    |-> Upper(pending_entry.ticker),
     ipo_date  |-> pending_entry.ipo_date,
     ipo_price |-> pending_entry.ipo_price]

format_for_database(pending_entry, price_info) ==
    [ticker    |-> Upper(pending_entry.ticker),
     ipo_date  |-> OrElse(price_info.actual_first_trade_date, pending_entry.ipo_date),
     ipo_price |-> price_info.ipo_price]

\* one entry of pending_ipos.json, with the price the calendar reported:
\* complete ones, and ones without a ticker and without a date
PendingEntries ==
    [ticker : Symbols \ {""}, ipo_date : {1}, ipo_price : {34000}]
      \cup [ticker : {""}, ipo_date : {1}, ipo_price : {34000}]
      \cup [ticker : {"AB"}, ipo_date : {0}, ipo_price : {34000}]

\* the data source during a run of main: one provider per pending entry
MainProviders ==
    {[h14 |-> h, hmonth |-> EmptyHist, hmax |-> EmptyHist] :
        h \in {EmptyHist, RaiseHist,
               [kind |-> "rows", date |-> 2, Open |-> 1006, Close |-> 0],
               [kind |-> "rows", date |-> 1, Open |-> 4, Close |-> 0]}}

\* entries of pending_ipos.json whose ticker is blank or padded with a blank,
\* as find_missing_ipos writes them for such symbols
PaddedEntries ==
    [ticker : {" ", " AB", "AB"}, ipo_date : {1}, ipo_price : {34000}]

\* ProcessLoop with the entries without a ticker or a date left uncounted
RECURSIVE ProcessLoopSkipUncounted(_, _, _, _)
ProcessLoopSkipUncounted(pending, provs, i, acc) ==
    IF i > Len(pending) THEN acc
    ELSE LET entry      == pending[i]
             ticker     == Upper(entry.ticker)
             ipo_date   == entry.ipo_date
             price_info == get_ipo_price_yfinance(ticker, ipo_date, provs[i])
         IN  IF ticker \in acc.existing_tickers
             THEN ProcessLoopSkipUncounted(pending, provs, i + 1,
                              [acc EXCEPT !.skipped = @ + 1])
             ELSE IF ticker = "" \/ ipo_date = 0
             THEN ProcessLoopSkipUncounted(pending, provs, i + 1, acc)
             ELSE IF price_info.success
             THEN ProcessLoopSkipUncounted(pending, provs, i + 1,
                              [acc EXCEPT
                                 !.successful = Append(@, format_for_database(entry, price_info)),
                                 !.existing_tickers = @ \cup {ticker}])
             ELSE ProcessLoopSkipUncounted(pending, provs, i + 1,
                              [acc EXCEPT
                                 !.failed = Append(@, [ticker |-> ticker,
                                                       ipo_date |-> ipo_date,
                                                       error |-> price_info.error])])

\* the for loop of main over pending[i..]; acc holds the loop's variables
RECURSIVE ProcessLoop(_, _, _, _)
ProcessLoop(pending, provs, i, acc) ==
    IF i > Len(pending) THEN acc
    ELSE LET entry      == pending[i]
             ticker     == Upper(entry.ticker)
             ipo_date   == entry.ipo_date
             price_info == get_ipo_price_yfinance(ticker, ipo_date, provs[i])
         IN  IF ticker \in acc.existing_tickers
             THEN ProcessLoop(pending, provs, i + 1,
                              [acc EXCEPT !.skipped = @ + 1])
             ELSE IF ticker = "" \/ ipo_date = 0
             THEN ProcessLoop(pending, provs, i + 1,
                              [acc EXCEPT !.skipped = @ + 1])
             ELSE IF price_info.success
             THEN ProcessLoop(pending, provs, i + 1,
                              [acc EXCEPT
                                 !.successful = Append(@, format_for_database(entry, price_info)),
                                 !.existing_tickers = @ \cup {ticker}])
             ELSE ProcessLoop(pending, provs, i + 1,
                              [acc EXCEPT
                                 !.failed = Append(@, [ticker |-> ticker,
                                                       ipo_date |-> ipo_date,
                                                       error |-> price_info.error])])

----------------------------------------------------------------------------
(* ipo_dashboard.py *)

\* what one stock.history(period=...) call gives back: an empty frame, an
\* exception, or a frame whose last row has the given date and Close
EmptyLast == [kind |-> "empty", date |-> 0, Close |-> 0]
RaiseLast == [kind |-> "raise", date |-> 0, Close |-> 0]
LastHists == {EmptyLast, RaiseLast} \cup [kind : {"rows"}, date : Dates, Close : {1004, 1006}]

\* the periods of the short-horizon loop, in the order of the code
Periods == <<"1d", "5d", "1mo", "3mo">>

\* days after which a stock without recent data counts as delisted
DelistDays == 30

\* the data source as seen by one call of check_stock_status: whether
\* stock.info raises, the answers for the four periods and for period="max",
\* and the day of datetime.now()
StatusSources ==
    [info : {"ok", "raise"}, short : [1..Len(Periods) -> LastHists],
     max : LastHists, now : {DelistDays + MaxDate}]

StatusResult(status, current, last, last_date, message) ==
    [status |-> status, current_price |-> current, last_price |-> last,
     last_trade_date |-> last_date, new_ticker |-> None, message |-> message]

\* UnknownStatus with an exception read as a delisting
UnknownAsDelisted == StatusResult("delisted", None, None, None, "Error")

UnknownStatus == StatusResult("unknown", None, None, None, "Error")

\* NoDataStatus with a stock without data read as merged
NoDataAsMerged == StatusResult("merged", None, None, None, "No trading data available")

NoDataStatus == StatusResult("delisted", None, None, None, "No trading data available")

RECURSIVE ShortLoopWidestFirst(_, _)
ShortLoopWidestFirst(src, i) ==
    LET k == Len(Periods) + 1 - i
    IN  IF i > Len(Periods)
        THEN IF src.max.kind = "raise" THEN UnknownStatus
             ELSE IF src.max.kind = "rows" /\ src.now - src.max.date > DelistDays
                  THEN StatusResult("delisted", None, Round2(src.max.Close),
                                    src.max.date, "Last traded")
             ELSE NoDataStatus
        ELSE IF src.short[k].kind = "raise" THEN UnknownStatus
        ELSE IF src.short[k].kind = "rows"
             THEN StatusResult("active", Round2(src.short[k].Close), None, None, "None")
        ELSE ShortLoopWidestFirst(src, i + 1)

\* ShortLoop with a last trade of 30 days ago or less read as still trading
RECURSIVE ShortLoopRecentActive(_, _)
ShortLoopRecentActive(src, i) ==
    IF i > Len(Periods)
    THEN IF src.max.kind = "raise" THEN UnknownStatus
         ELSE IF src.max.kind = "rows" /\ src.now - src.max.date > DelistDays
              THEN StatusResult("delisted", None, Round2(src.max.Close),
                                src.max.date, "Last traded")
         ELSE IF src.max.kind = "rows"
              THEN StatusResult("active", Round2(src.max.Close), None, None, "None")
         ELSE NoDataStatus
    ELSE IF src.short[i].kind = "raise" THEN UnknownStatus
    ELSE IF src.short[i].kind = "rows"
         THEN StatusResult("active", Round2(src.short[i].Close), None, None, "None")
    ELSE ShortLoopRecentActive(src, i + 1)

\* the for loop over the periods, from period i on
RECURSIVE ShortLoop(_, _)
ShortLoop(src, i) ==
    IF i > Len(Periods)
    THEN IF src.max.kind = "raise" THEN UnknownStatus
         ELSE IF src.max.kind = "rows" /\ src.now - src.max.date > DelistDays
              THEN StatusResult("delisted", None, Round2(src.max.Close),
                                src.max.date, "Last traded")
         ELSE NoDataStatus
    ELSE IF src.short[i].kind = "raise" THEN UnknownStatus
    ELSE IF src.short[i].kind = "rows"
         THEN StatusResult("active", Round2(src.short[i].Close), None, None, "None")
    ELSE ShortLoop(src, i + 1)

check_stock_status(ticker, src) ==
    IF src.info = "raise" THEN UnknownStatus ELSE ShortLoop(src, 1)

\* the values get_current_price returns in place of a price
DELISTED == 0 - 2
MERGED == 0 - 3

\* the body of get_current_price after the call of check_stock_status
CurrentPriceOf(status_info) ==
    IF status_info.status = "active" THEN status_info.current_price
    ELSE IF status_info.status = "delisted" THEN DELISTED
    ELSE IF status_info.status = "merged" THEN MERGED
    ELSE None

\* get_current_price without the delisted branch
get_current_price_NoDelisted(ticker, src) ==
    LET status_info == check_stock_status(ticker, src)
    IN  IF status_info.status = "active" THEN status_info.current_price
        ELSE IF status_info.status = "merged" THEN MERGED
        ELSE None

get_current_price(ticker, src) == CurrentPriceOf(check_stock_status(ticker, src))

\* price_change and percent_change of a performance result: null, a number
\* (mills for price_change, hundredths of a percent for percent_change), or
\* what a float division by zero leaves: inf (v = 1), -inf (v = -1) or nan
Null == [kind |-> "None", v |-> 0]
Num(n) == [kind |-> "num", v |-> n]
Inf(sign) == [kind |-> "inf", v |-> sign]
NaN == [kind |-> "nan", v |-> 0]

\* round(n / d) for d > 0, halves to the even neighbour
RoundDiv(n, d) ==
    LET q == n \div d
        r == n % d
    IN  IF 2 * r < d THEN q
        ELSE IF 2 * r > d THEN q + 1
        ELSE IF q % 2 = 0 THEN q ELSE q + 1

\* round(x, 2) of a price difference in mills, of either sign
Round2Signed(m) == RoundDiv(m, 10) * 10

\* what stock.history(start=ipo_date, end=ipo_date + 5 days) gives back: an
\* empty frame, an exception, or a frame whose first row has the given Open
EmptyOpen == [kind |-> "empty", Open |-> 0]
RaiseOpen == [kind |-> "raise", Open |-> 0]
OpenHists == {EmptyOpen, RaiseOpen} \cup [kind : {"rows"}, Open : {0, 4, 1006, 34000}]

\* what the division by an ipo_open_price of zero does: float64 operands
\* give inf or nan, Python floats raise ZeroDivisionError
ZeroDivisions == {"inf", "raise"}

PerformanceResult(open, current, change, percent, status, error) ==
    [ipo_open_price |-> open, current_price |-> current, price_change |-> change,
     percent_change |-> percent, status |-> status, error |-> error]

\* the result of the except branch
PerformanceError(ipo_price, error) ==
    PerformanceResult(ipo_price, None, Null, Null, "None", error)

\* ActivePerformance with the change taken relative to the current price
ActivePerformanceOverCurrent(ipo_price, ipo_open_price, current_price, zero_div) ==
    LET price_change == current_price - ipo_open_price
    IN  IF current_price = 0
        THEN PerformanceError(ipo_price, "ZeroDivisionError")
        ELSE PerformanceResult(ipo_open_price, current_price,
                               Num(Round2Signed(price_change)),
                               Num(RoundDiv(price_change * 10000, current_price)),
                               "active", "None")

\* the performance of an active stock, with the division as the code writes it
ActivePerformance(ipo_price, ipo_open_price, current_price, zero_div) ==
    LET price_change == current_price - ipo_open_price
    IN  IF ipo_open_price = 0
        THEN IF zero_div = "raise" THEN PerformanceError(ipo_price, "ZeroDivisionError")
             ELSE PerformanceResult(ipo_open_price, current_price,
                                    Num(Round2Signed(price_change)),
                                    IF price_change > 0 THEN Inf(1)
                                    ELSE IF price_change < 0 THEN Inf(0 - 1)
                                    ELSE NaN,
                                    "active", "None")
        ELSE PerformanceResult(ipo_open_price, current_price,
                               Num(Round2Signed(price_change)),
                               Num(RoundDiv(price_change * 10000, ipo_open_price)),
                               "active", "None")

\* get_ipo_performance, with the history of the days after the IPO (hist),
\* the data source of get_current_price (src) and the float arithmetic
get_ipo_performance(ticker, ipo_date, ipo_price, hist, src, zero_div) ==
    IF ipo_date \notin Dates THEN PerformanceError(ipo_price, "ValueError")
    ELSE IF hist.kind = "raise" THEN PerformanceError(ipo_price, "Error")
    ELSE LET ipo_open_price == IF hist.kind = "rows" THEN Round2(hist.Open)
                                                     ELSE ipo_price
             current_price  == get_current_price(ticker, src)
         IN  IF current_price = DELISTED
             THEN PerformanceResult(ipo_open_price, DELISTED, Null, Null,
                                    "delisted", "None")
             ELSE IF current_price = MERGED
             THEN PerformanceResult(ipo_open_price, MERGED, Null, Null,
                                    "merged", "None")
             ELSE IF current_price = None
             THEN PerformanceResult(ipo_open_price, None, Null, Null, "None",
                                    "Could not fetch current price")
             ELSE ActivePerformance(ipo_price, ipo_open_price, current_price, zero_div)

\* the last row of a short-horizon window as seen through get_ipo_performance
PerfLast ==
    {EmptyLast, RaiseLast} \cup [kind : {"rows"}, date : {1}, Close : {1004, 45500}]

\* the data sources of the performance calls: the first window decides
PerfSources ==
    {[info |-> i, short |-> [k \in 1..Len(Periods) |-> IF k = 1 THEN w ELSE EmptyLast],
      max |-> m, now |-> DelistDays + MaxDate] :
        i \in {"ok", "raise"}, w \in PerfLast, m \in LastHists}

\* st.cache_data: the seconds an entry of the live lookups and of
\* load_ipo_data lives
LiveTtl == 300
DataTtl == 3600

\* the ticker the dashboard looks up
SessionTickers == {"AB"}

\* the answers of the data source during a session: the stock trades at the
\* given last close, or the data source raises
Trading(close) ==
    [info |-> "ok",
     short |-> [k \in 1..Len(Periods) |-> [kind |-> "rows", date |-> 1, Close |-> close]],
     max |-> EmptyLast, now |-> DelistDays + MaxDate]
Unreachable ==
    [info |-> "raise", short |-> [k \in 1..Len(Periods) |-> EmptyLast],
     max |-> EmptyLast, now |-> DelistDays + MaxDate]
SessionSources == {Trading(1004), Trading(1006), Unreachable}

\* the "ipos" list data/ipos.json can hold during a session
IpoFiles == {<<>>, <<[ticker |-> "AB", ipo_date |-> 1, ipo_price |-> 1000]>>}

\* the seconds that pass between two calls, and how often time passes
Advances == {100, 200, 3500}
MaxTicks == 3

\* an entry of a cache: the time it was stored (None when there is none),
\* the value, and the time the value was read from the data source
NoEntry == [at |-> None, value |-> None, fetched |-> None]
Entry(at, value, fetched) == [at |-> at, value |-> value, fetched |-> fetched]

\* Valid with entries that never expire
ValidForever(entry, now, ttl) == entry.at # None

\* the cache returns the entry: there is one and it is younger than ttl
Valid(entry, now, ttl) == entry.at # None /\ now < entry.at + ttl

\* check_stock_status through its cache: the entry the call leaves
CachedStatus(ticker) ==
    LET entry == session.status_cache[ticker]
    IN  IF Valid(entry, session.now, LiveTtl) THEN entry
        ELSE Entry(session.now, check_stock_status(ticker, session.provider[ticker]),
                   session.now)

\* get_current_price through its cache: the entry the call leaves
CachedPrice(ticker) ==
    LET entry == session.price_cache[ticker]
    IN  IF Valid(entry, session.now, LiveTtl) THEN entry
        ELSE Entry(session.now, CurrentPriceOf(CachedStatus(ticker).value),
                   CachedStatus(ticker).fetched)

\* load_ipo_data through its cache: the entry the call leaves
CachedData ==
    IF Valid(session.data_cache, session.now, DataTtl) THEN session.data_cache
    ELSE Entry(session.now, session.file, session.now)

Call(op, ticker, before, src, entry) ==
    [op |-> op, ticker |-> ticker, now |-> session.now, before |-> before,
     src |-> src, value |-> entry.value, fetched |-> entry.fetched]

StartSession ==
    [state |-> "running", now |-> 0, ticks |-> 0,
     provider |-> [t \in SessionTickers |-> Trading(1004)], file |-> <<>>,
     status_cache |-> [t \in SessionTickers |-> NoEntry],
     price_cache |-> [t \in SessionTickers |-> NoEntry],
     data_cache |-> NoEntry,
     last |-> [op |-> "none"]]

----------------------------------------------------------------------------
(* scripts/find_missing_ipos.py *)

\* a price string is a sequence of these pieces: numerals, the dash, a
\* blank, and text that is no number
Numerals == {"31.00", "34.00", "0.004"}
Pieces == Numerals \cup {"-", " ", "abc"}

\* the value of a numeral, in mills
NumeralValue(t) == CASE t = "31.00" -> 31000
                     [] t = "34.00" -> 34000
                     [] OTHER -> 4

\* the "price" of a calendar item: absent or null, a JSON number (mills), or
\* a string
PyNone == [kind |-> "None", v |-> 0, str |-> <<>>]
PyNum(n) == [kind |-> "num", v |-> n, str |-> <<>>]
PyStr(pieces) == [kind |-> "str", v |-> 0, str |-> pieces]

\* bool(x) of a price
Truthy(x) == CASE x.kind = "None" -> FALSE
               [] x.kind = "num" -> x.v # 0
               [] OTHER -> x.str # <<>>

\* "-" in str(x): a string with a dash, or a negative number
HasDash(x) == IF x.kind = "num" THEN x.v < 0
              ELSE \E i \in 1..Len(x.str) : x.str[i] = "-"

\* s.split("-")[-1]: what follows the last dash
LastPart(s) ==
    LET dashes == {i \in 1..Len(s) : s[i] = "-"}
        last   == IF dashes = {} THEN 0
                  ELSE CHOOSE i \in dashes : \A j \in dashes : j <= i
    IN  SubSeq(s, last + 1, Len(s))

\* s.strip(), which float() applies to its argument
Strip(s) ==
    LET inked == {i \in 1..Len(s) : s[i] # " "}
    IN  IF inked = {} THEN <<>>
        ELSE SubSeq(s, CHOOSE i \in inked : \A j \in inked : i <= j,
                       CHOOSE i \in inked : \A j \in inked : j <= i)

\* float(s) raises ValueError unless s is one numeral between blanks
FloatRaises(s) == ~(Len(Strip(s)) = 1 /\ Strip(s)[1] \in Numerals)

FloatOf(s) == NumeralValue(Strip(s)[1])

\* the price a calendar item carries: ipo.get("price") or "0"
PriceStr(price) == IF Truthy(price) THEN price ELSE PyStr(<<"0">>)

\* the try block raises AttributeError, which the except clause does not
\* catch: split is called on a number
NormalizeRaises(ipo) ==
    LET price_str == PriceStr(ipo.price)
    IN  HasDash(price_str) /\ price_str.kind = "num"

\* the price the try block of normalize_finnhub_ipo leaves, in mills
ParsedPrice(ipo) ==
    LET price_str == PriceStr(ipo.price)
    IN  IF price_str.kind = "num" THEN price_str.v
        ELSE IF price_str.str = <<"0">> THEN 0
        ELSE IF HasDash(price_str)
             THEN IF FloatRaises(LastPart(price_str.str)) THEN 0
                  ELSE FloatOf(LastPart(price_str.str))
        ELSE IF FloatRaises(price_str.str) THEN 0
        ELSE FloatOf(price_str.str)

\* str.lower() on the statuses of the model
Lower(s) == CASE s = "Withdrawn" -> "withdrawn"
              [] s = "POSTPONED" -> "postponed"
              [] OTHER -> s

normalize_finnhub_ipo(ipo) ==
    [ticker |-> Upper(ipo.symbol), ipo_date |-> ipo.date,
     ipo_price |-> Round2(ParsedPrice(ipo)),
     status |-> IF ipo.status = "" THEN "unknown" ELSE ipo.status]

\* the prices given to normalize_finnhub_ipo when called on its own
MaxPieces == 3
PriceValues ==
    {PyNone, PyNum(0), PyNum(34000), PyNum(0 - 5000)}
      \cup {PyStr(p) : p \in SeqsUpTo(Pieces, MaxPieces)}

\* a datetime is a number of half days: 2 * d is midnight of day d and
\* 2 * d + 1 its noon; strftime("%Y-%m-%d") keeps the day
DayOf(t) == t \div 2
Days(n) == 2 * n

\* chunk_days of fetch_all_ipos_in_range
ChunkDays == 90

\* the longest range, in days, given to fetch_all_ipos_in_range
MaxRangeDays == 185

Min(a, b) == IF a < b THEN a ELSE b

\* the call of fetch_ipo_calendar one iteration of the while loop makes
ChunkQuery(current, end) ==
    [from |-> DayOf(current), to |-> DayOf(Min(current + Days(ChunkDays), end))]

\* current after one iteration of the while loop
NextCurrent(current, end) == Min(current + Days(ChunkDays), end) + Days(1)

\* one entry of the Finnhub calendar: None, or an item with its symbol (which
\* can be blank or padded with a blank), date (0 when absent), status ("" when
\* absent) and price
NoneItem == [none |-> TRUE, symbol |-> "", date |-> 0, status |-> "", price |-> PyNone]

FinnhubItems ==
    {NoneItem}
      \cup [none : {FALSE}, symbol : {"AB", "ab", "CD"}, date : {1},
            status : {"priced", "Withdrawn"},
            price : {PyStr(<<"31.00", "-", "34.00">>)}]
      \cup [none : {FALSE}, symbol : {"CD"}, date : {MaxDate},
            status : {"filed", "postponed", "POSTPONED", ""}, price : {PyNone}]
      \cup [none : {FALSE}, symbol : {"", "AB"}, date : {0, 1},
            status : {"priced"}, price : {PyNum(0 - 5000)}]
      \cup [none : {FALSE}, symbol : {" ", " ab"}, date : {1},
            status : {"priced"}, price : {PyNone}]

\* the reject-list of find_missing_ipos
RejectedStatuses == {"withdrawn", "postponed"}

\* the entry passes the checks made before normalize_finnhub_ipo is called
Candidate(ipo, existing_tickers) ==
    /\ ~ipo.none
    /\ Upper(ipo.symbol) # ""
    /\ Upper(ipo.symbol) \notin existing_tickers
    /\ ipo.date # 0
    /\ Lower(ipo.status) \notin RejectedStatuses

\* find_missing_ipos does not return: normalize_finnhub_ipo raises on a
\* candidate
FindMissingRaises(finnhub_ipos, existing_tickers) ==
    \E i \in 1..Len(finnhub_ipos) :
        Candidate(finnhub_ipos[i], existing_tickers) /\ NormalizeRaises(finnhub_ipos[i])

\* MissingLoop without the status check
RECURSIVE MissingLoopAnyStatus(_, _, _, _)
MissingLoopAnyStatus(finnhub_ipos, existing_tickers, i, missing) ==
    IF i > Len(finnhub_ipos) THEN missing
    ELSE LET ipo == finnhub_ipos[i]
             normalized == normalize_finnhub_ipo(ipo)
         IN  IF /\ ~ipo.none
                /\ Upper(ipo.symbol) # ""
                /\ Upper(ipo.symbol) \notin existing_tickers
                /\ ipo.date # 0
                /\ normalized.ticker # "" /\ normalized.ipo_date # 0
             THEN MissingLoopAnyStatus(finnhub_ipos, existing_tickers, i + 1,
                                       Append(missing, normalized))
             ELSE MissingLoopAnyStatus(finnhub_ipos, existing_tickers, i + 1, missing)

\* the for loop of find_missing_ipos, from entry i on
RECURSIVE MissingLoop(_, _, _, _)
MissingLoop(finnhub_ipos, existing_tickers, i, missing) ==
    IF i > Len(finnhub_ipos) THEN missing
    ELSE LET ipo == finnhub_ipos[i]
             normalized == normalize_finnhub_ipo(ipo)
         IN  IF /\ Candidate(ipo, existing_tickers)
                /\ normalized.ticker # "" /\ normalized.ipo_date # 0
             THEN MissingLoop(finnhub_ipos, existing_tickers, i + 1,
                              Append(missing, normalized))
             ELSE MissingLoop(finnhub_ipos, existing_tickers, i + 1, missing)

find_missing_ipos(finnhub_ipos, existing_tickers) ==
    SortByDateDesc(MissingLoop(finnhub_ipos, existing_tickers, 1, <<>>))

----------------------------------------------------------------------------
(* State *)

\* store   the "ipos" list of data/ipos.json
\* backup  the "ipos" list of data/ipos_backup.json, NoFile when absent
\* run     what the run of a script did: its inputs, the locals of main
\*         and the file operations in the order they happened
\* out     the arguments and the result of the last call of a function
\*         called on its own
\* session the dashboard process: its clock, the caches of st.cache_data,
\*         what the data source and the data file hold, and the last call

NoFile == <<[ticker |-> "", ipo_date |-> None, ipo_price |-> None]>>

NoRun == [script |-> "none", loaded |-> <<>>, incoming |-> <<>>, provs |-> <<>>,
          unsorted |-> <<>>, sorted |-> <<>>, successful |-> <<>>,
          failed |-> <<>>, skipped |-> 0, events |-> <<>>]

NoOut == [op |-> "none"]

NoSession == [state |-> "none"]

\* a record that can be found in ipos.json when a script starts: a valid one,
\* or one with ipo_price 0.0, which process_pending_ipos.py writes when the
\* resolved price rounds to zero
StoreRecords ==
    [ticker : Symbols \ {""}, ipo_date : Dates, ipo_price : {1000}]
      \cup [ticker : {"AB"}, ipo_date : {1}, ipo_price : {0}]

IsSortedDesc(s) == \A i \in 1..Len(s) - 1 : s[i].ipo_date >= s[i + 1].ipo_date

UniqueTickers(s) ==
    \A i, j \in 1..Len(s) : Upper(s[i].ticker) = Upper(s[j].ticker) => i = j

\* the contents of ipos.json a script can start from: newest first, no two
\* records with the same uppercased ticker
InitialStores ==
    {s \in SeqsUpTo(StoreRecords, MaxExisting) : IsSortedDesc(s) /\ UniqueTickers(s)}

Init ==
    /\ store \in InitialStores
    /\ backup = NoFile
    /\ run = NoRun
    /\ out = NoOut
    /\ session = NoSession

\* the "ipos" list of ipos.json after main of fetch_ipos.py ran on the list
\* existing with the calendar response new_ipos; a TypeError in
\* filter_valid_ipos ends main before save_data
FetchIposStore(existing, new_ipos) ==
    IF new_ipos = <<>> \/ FilterRaises(merge_ipo_data(existing, new_ipos))
    THEN existing
    ELSE filter_valid_ipos(merge_ipo_data(existing, new_ipos))

\* main of fetch_ipos.py, with the calendar response new_ipos
FetchIposRun(new_ipos) ==
    LET unsorted == MergeUnsorted(store, new_ipos)
        merged   == merge_ipo_data(store, new_ipos)
        ran(u, m, ev) == [NoRun EXCEPT !.script = "fetch_ipos", !.loaded = store,
                                       !.incoming = new_ipos, !.unsorted = u,
                                       !.sorted = m, !.events = ev]
    IN  /\ store' = FetchIposStore(store, new_ipos)
        /\ run' = IF new_ipos = <<>> THEN ran(store, store, <<"save">>)
                   ELSE IF FilterRaises(merged)
                        THEN ran(unsorted, merged, <<"TypeError">>)
                        ELSE ran(unsorted, merged, <<"save">>)
        /\ UNCHANGED <<backup, out, session>>

\* main of process_pending_ipos.py, with the pending file's entries and the
\* data source's answers for each of them
ProcessPendingRun(pending, provs) ==
    LET acc0 == [existing_tickers |-> {Upper(store[i].ticker) : i \in 1..Len(store)},
                 successful |-> <<>>, failed |-> <<>>, skipped |-> 0]
        acc  == ProcessLoop(pending, provs, 1, acc0)
        unsorted == store \o acc.successful
        ran(u, m, ev) == [NoRun EXCEPT !.script = "process_pending_ipos",
                                       !.loaded = store, !.incoming = pending,
                                       !.provs = provs, !.unsorted = u, !.sorted = m,
                                       !.successful = acc.successful,
                                       !.failed = acc.failed,
                                       !.skipped = acc.skipped, !.events = ev]
    IN  /\ backup' = store
        /\ IF pending = <<>>
           THEN /\ store' = store
                /\ run' = [NoRun EXCEPT !.script = "process_pending_ipos",
                                        !.loaded = store, !.unsorted = store,
                                        !.sorted = store, !.events = <<"backup">>]
           ELSE /\ store' = IF acc.successful # <<>> THEN SortByDateDesc(unsorted)
                                                     ELSE store
                /\ run' = ran(unsorted,
                              IF acc.successful # <<>> THEN SortByDateDesc(unsorted)
                                                       ELSE store,
                              <<"backup">>
                                \o (IF acc.successful # <<>> THEN <<"save">> ELSE <<>>)
                                \o (IF acc.failed # <<>> THEN <<"save_failed">> ELSE <<>>))
        /\ UNCHANGED <<out, session>>

\* one run of fetch_ipos.py on the file as found
FetchIposMain ==
    /\ run.script = "none"
    /\ \E new_ipos \in SeqsUpTo(FmpItems, MaxBatch) : FetchIposRun(new_ipos)

\* one run of process_pending_ipos.py on the file as found
ProcessPendingMain ==
    /\ run.script = "none"
    /\ \E pending \in SeqsUpTo(PendingEntries, MaxPending) :
         \E provs \in [1..Len(pending) -> MainProviders] :
            ProcessPendingRun(pending, provs)

Next ==
    \/ FetchIposMain
    \/ ProcessPendingMain

Spec == Init /\ [][Next]_vars

----------------------------------------------------------------------------
(* Functions called on their own *)

InitCall ==
    /\ store = <<>>
    /\ backup = NoFile
    /\ run = NoRun
    /\ out = NoOut
    /\ session = NoSession

\* one call of get_ipo_price_yfinance
Resolve ==
    /\ out.op = "none"
    /\ \E ticker \in {"AB"}, ipo_date \in 0..BadDate, prov \in Providers :
         out' = [op |-> "get_ipo_price_yfinance", ticker |-> ticker,
                 ipo_date |-> ipo_date, prov |-> prov,
                 calls |-> HistoryCalls(ipo_date, prov),
                 result |-> get_ipo_price_yfinance(ticker, ipo_date, prov)]
    /\ UNCHANGED <<store, backup, run, session>>

NextResolver == Resolve

SpecResolver == InitCall /\ [][NextResolver]_vars

\* one call of check_stock_status
CheckStatus ==
    /\ out.op = "none"
    /\ \E ticker \in {"AB"}, src \in StatusSources :
         out' = [op |-> "check_stock_status", ticker |-> ticker, src |-> src,
                 result |-> check_stock_status(ticker, src)]
    /\ UNCHANGED <<store, backup, run, session>>

NextStatus == CheckStatus

SpecStatus == InitCall /\ [][NextStatus]_vars

\* one call of get_current_price
CurrentPrice ==
    /\ out.op = "none"
    /\ \E ticker \in {"AB"}, src \in StatusSources :
         out' = [op |-> "get_current_price", ticker |-> ticker, src |-> src,
                 result |-> get_current_price(ticker, src)]
    /\ UNCHANGED <<store, backup, run, session>>

\* one call of get_ipo_performance
Performance ==
    /\ out.op = "none"
    /\ \E ticker \in {"AB"}, ipo_date \in {1, BadDate}, ipo_price \in {0, 1004, 34000},
          hist \in OpenHists, src \in PerfSources, zero_div \in ZeroDivisions :
         out' = [op |-> "get_ipo_performance", ticker |-> ticker,
                 ipo_date |-> ipo_date, ipo_price |-> ipo_price, hist |-> hist,
                 src |-> src, zero_div |-> zero_div,
                 result |-> get_ipo_performance(ticker, ipo_date, ipo_price,
                                                hist, src, zero_div)]
    /\ UNCHANGED <<store, backup, run, session>>

NextDashboard ==
    \/ CheckStatus
    \/ CurrentPrice
    \/ Performance

SpecDashboard == InitCall /\ [][NextDashboard]_vars

\* one call of normalize_finnhub_ipo
Normalize ==
    /\ out.op = "none"
    /\ \E price \in PriceValues :
         LET ipo == [none |-> FALSE, symbol |-> "ab", date |-> 1,
                     status |-> "priced", price |-> price]
         IN  out' = [op |-> "normalize_finnhub_ipo", ipo |-> ipo,
                     raised |-> NormalizeRaises(ipo),
                     result |-> IF NormalizeRaises(ipo) THEN None
                                ELSE normalize_finnhub_ipo(ipo)]
    /\ UNCHANGED <<store, backup, run, session>>

\* one call of find_missing_ipos, with the tickers of load_existing_ipos
FindMissing ==
    /\ out.op = "none"
    /\ run.script = "none"
    /\ \E finnhub_ipos \in SeqsUpTo(FinnhubItems, MaxBatch),
          existing_tickers \in SUBSET {"AB", "CD"} :
         out' = [op |-> "find_missing_ipos", finnhub_ipos |-> finnhub_ipos,
                 existing_tickers |-> existing_tickers,
                 raised |-> FindMissingRaises(finnhub_ipos, existing_tickers),
                 result |-> IF FindMissingRaises(finnhub_ipos, existing_tickers)
                            THEN <<>>
                            ELSE find_missing_ipos(finnhub_ipos, existing_tickers)]
    /\ UNCHANGED <<store, backup, run, session>>

\* one run of process_pending_ipos.py on an empty store, with a pending
\* file that holds blank or padded tickers
ProcessPaddedMain ==
    /\ run.script = "none"
    /\ out.op = "none"
    /\ \E pending \in SeqsUpTo(PaddedEntries, MaxPending) :
         \E provs \in [1..Len(pending) -> MainProviders] :
            ProcessPendingRun(pending, provs)

NextTicker ==
    \/ FindMissing
    \/ ProcessPaddedMain

SpecTicker == InitCall /\ [][NextTicker]_vars

NextFinnhub ==
    \/ Normalize
    \/ FindMissing

SpecFinnhub == InitCall /\ [][NextFinnhub]_vars

\* fetch_all_ipos_in_range(start, end) is called: START_DATE is a midnight,
\* END_DATE is datetime.now()
CallFetchRange ==
    /\ out.op = "none"
    /\ \E start \in {Days(0)}, end \in 0..Days(MaxRangeDays) + 1 :
         out' = [op |-> "fetch_all_ipos_in_range", start |-> start, end |-> end,
                 current |-> start, queries |-> <<>>, done |-> FALSE]
    /\ UNCHANGED <<store, backup, run, session>>

\* one test of the while condition, and one iteration when it holds
ChunkStep ==
    /\ out.op = "fetch_all_ipos_in_range"
    /\ ~out.done
    /\ out' = IF out.current < out.end
              THEN [out EXCEPT !.queries = Append(@, ChunkQuery(out.current, out.end)),
                               !.current = NextCurrent(out.current, out.end)]
              ELSE [out EXCEPT !.done = TRUE]
    /\ UNCHANGED <<store, backup, run, session>>

NextChunks ==
    \/ CallFetchRange
    \/ ChunkStep

SpecChunks == InitCall /\ [][NextChunks]_vars

\* the dashboard process starts with empty caches
InitSession ==
    /\ store = <<>>
    /\ backup = NoFile
    /\ run = NoRun
    /\ out = NoOut
    /\ session = StartSession

\* time passes
Advance ==
    /\ session.ticks < MaxTicks
    /\ \E d \in Advances :
         session' = [session EXCEPT !.now = @ + d, !.ticks = @ + 1]
    /\ UNCHANGED <<store, backup, run, out>>

\* the data source changes its answer for a ticker
ProviderChanges ==
    /\ \E t \in SessionTickers :
         \E src \in SessionSources \ {session.provider[t]} :
            session' = [session EXCEPT !.provider[t] = src]
    /\ UNCHANGED <<store, backup, run, out>>

\* a script rewrites data/ipos.json
FileChanges ==
    /\ \E f \in IpoFiles \ {session.file} : session' = [session EXCEPT !.file = f]
    /\ UNCHANGED <<store, backup, run, out>>

\* the page calls get_current_price(ticker), which calls check_stock_status
\* when its own cache has no valid entry
LookupPrice ==
    /\ \E t \in SessionTickers :
         session' = [session EXCEPT
            !.status_cache[t] = IF Valid(session.price_cache[t], session.now, LiveTtl)
                                THEN @ ELSE CachedStatus(t),
            !.price_cache[t] = CachedPrice(t),
            !.last = Call("get_current_price", t, session.price_cache[t],
                          session.provider[t], CachedPrice(t))]
    /\ UNCHANGED <<store, backup, run, out>>

\* the page calls load_ipo_data()
LoadIpoData ==
    /\ session' = [session EXCEPT
          !.data_cache = CachedData,
          !.last = Call("load_ipo_data", "", session.data_cache, session.file,
                        CachedData)]
    /\ UNCHANGED <<store, backup, run, out>>

\* the Refresh button: st.cache_data.clear()
Refresh ==
    /\ session' = [session EXCEPT
          !.status_cache = [t \in SessionTickers |-> NoEntry],
          !.price_cache = [t \in SessionTickers |-> NoEntry],
          !.data_cache = NoEntry,
          !.last = [op |-> "refresh"]]
    /\ UNCHANGED <<store, backup, run, out>>

NextSession ==
    \/ Advance
    \/ ProviderChanges
    \/ FileChanges
    \/ LookupPrice
    \/ LoadIpoData
    \/ Refresh

SpecSession == InitSession /\ [][NextSession]_vars

----------------------------------------------------------------------------
(* Properties of the pipeline runs (Spec) *)

Saved == \E i \in 1..Len(run.events) : run.events[i] = "save"

\* the records a run appended to the list it loaded, before the sort
Appended == SubSeq(run.unsorted, Len(run.loaded) + 1, Len(run.unsorted))

\* C1: no two records of the store share the same uppercased ticker, after
\* any run of fetch_ipos or process_pending_ipos on a store that had no such
\* pair
C1_TickerUniqueness == UniqueTickers(store)

\* C2: every record a run added to the store has ipo_price > 0, a non-empty
\* ticker and a non-empty ipo_date
C2_AddedRecordsValid ==
    run.script # "none" =>
        \A r \in Range(store) \ Range(run.loaded) :
            r.ticker # "" /\ r.ipo_date # 0 /\ r.ipo_price > 0

\* C3: merging the batch of a fetch_ipos run a second time changes nothing:
\* merge_ipo_data on its own result gives that result, and a second run of
\* main on the saved store with the same batch saves the same store
C3_MergeIdempotent ==
    (run.script = "fetch_ipos" /\ run.incoming # <<>>) =>
        /\ merge_ipo_data(run.sorted, run.incoming) = run.sorted
        /\ FetchIposStore(store, run.incoming) = store

\* the price_info main got for pending entry k
PriceInfo(k) ==
    get_ipo_price_yfinance(Upper(run.incoming[k].ticker),
                           run.incoming[k].ipo_date, run.provs[k])

\* pending entry k is neither skipped for a missing date nor failed
Resolved(k) == run.incoming[k].ipo_date # 0 /\ PriceInfo(k).success

\* merge_ipo_data keeps the loaded records as they are and, for every other
\* symbol, exactly one record, built from the first item with that symbol
FetchFirstWins ==
    run.script = "fetch_ipos" =>
        /\ Len(run.unsorted) >= Len(run.loaded)
        /\ SubSeq(run.unsorted, 1, Len(run.loaded)) = run.loaded
        /\ \A i \in Len(run.loaded) + 1..Len(run.unsorted) :
              /\ \A j \in 1..Len(run.unsorted) :
                    run.unsorted[j].ticker = run.unsorted[i].ticker => j = i
              /\ \E k \in 1..Len(run.incoming) :
                    /\ run.incoming[k].symbol = run.unsorted[i].ticker
                    /\ \A j \in 1..k - 1 :
                          run.incoming[j].symbol # run.unsorted[i].ticker
                    /\ run.unsorted[i] = FmpRecord(run.incoming[k])
        /\ Range(store) \subseteq Range(run.unsorted)

\* C4 as stated: the record kept for a ticker is the existing one or else the
\* first incoming one in scan order, in merge_ipo_data and in the loop of
\* process_pending_ipos main
C4_FirstOccurrenceWins ==
    /\ FetchFirstWins
    /\ run.script = "process_pending_ipos" =>
        /\ SubSeq(run.unsorted, 1, Len(run.loaded)) = run.loaded
        /\ \A i \in Len(run.loaded) + 1..Len(run.unsorted) :
              /\ \A j \in 1..Len(run.unsorted) :
                    Upper(run.unsorted[j].ticker) = run.unsorted[i].ticker => j = i
              /\ \E k \in 1..Len(run.incoming) :
                    /\ Upper(run.incoming[k].ticker) = run.unsorted[i].ticker
                    /\ \A j \in 1..k - 1 :
                          Upper(run.incoming[j].ticker) # run.unsorted[i].ticker
                    /\ run.unsorted[i] = format_for_database(run.incoming[k], PriceInfo(k))

\* C4 as amended: the record kept for a ticker is the existing one or else the
\* first incoming one in scan order that the run accepts; in
\* process_pending_ipos main that is the first entry with a date whose price
\* resolution succeeds
C4_FirstAcceptedWins ==
    /\ FetchFirstWins
    /\ run.script = "process_pending_ipos" =>
        /\ SubSeq(run.unsorted, 1, Len(run.loaded)) = run.loaded
        /\ \A i \in Len(run.loaded) + 1..Len(run.unsorted) :
              /\ \A j \in 1..Len(run.unsorted) :
                    Upper(run.unsorted[j].ticker) = run.unsorted[i].ticker => j = i
              /\ \E k \in 1..Len(run.incoming) :
                    /\ Upper(run.incoming[k].ticker) = run.unsorted[i].ticker
                    /\ Resolved(k)
                    /\ \A j \in 1..k - 1 :
                          ~(Upper(run.incoming[j].ticker) = run.unsorted[i].ticker
                            /\ Resolved(j))
                    /\ run.unsorted[i] = format_for_database(run.incoming[k], PriceInfo(k))
        /\ Range(store) \subseteq Range(run.unsorted)

\* a run kept a record for a ticker that occurs twice, with different data,
\* in what came in
C4_Witness ==
    \/ /\ run.script = "fetch_ipos" /\ Saved
       /\ \E i, j \in 1..Len(run.incoming) :
             /\ i < j
             /\ run.incoming[i].symbol = run.incoming[j].symbol
             /\ run.incoming[i] # run.incoming[j]
             /\ FmpRecord(run.incoming[i]) \in Range(store) \ Range(run.loaded)
    \/ /\ run.script = "process_pending_ipos" /\ Saved
       /\ \E i, j \in 1..Len(run.incoming) :
             /\ i < j
             /\ Upper(run.incoming[i].ticker) = Upper(run.incoming[j].ticker)
             /\ Resolved(i) /\ Resolved(j)
             /\ PriceInfo(i) # PriceInfo(j)
             /\ format_for_database(run.incoming[i], PriceInfo(i)) \in Range(store)

\* C5: every record that was in the store before a run is in the store the
\* run saved
C5_ExistingRecordsKept ==
    Saved => Range(run.loaded) \subseteq Range(store)

\* the records of s with ipo_date d, in the order of s
WithDate(s, d) == SelectSeq(s, LAMBDA r : r.ipo_date = d)

\* the record a run builds from item k of what came in
Built(k) ==
    IF run.script = "fetch_ipos" THEN FmpRecord(run.incoming[k])
    ELSE format_for_database(run.incoming[k], PriceInfo(k))

\* the appended records are in the order in which their items came in
ArrivalOrder ==
    \A i, j \in 1..Len(Appended) :
        i < j => \E a, b \in 1..Len(run.incoming) :
                    a < b /\ Built(a) = Appended[i] /\ Built(b) = Appended[j]

\* C6: the list a run merged is ordered by ipo_date descending, records with
\* equal ipo_date are in the order they had before the sort, which is the
\* loaded records in their prior order followed by the appended ones, and the
\* saved store is ordered too
C6_SortedStable ==
    run.script # "none" =>
        /\ IsSortedDesc(run.sorted)
        /\ Len(run.sorted) = Len(run.unsorted)
        /\ \A d \in 0..MaxDate : WithDate(run.sorted, d) = WithDate(run.unsorted, d)
        /\ SubSeq(run.unsorted, 1, Len(run.loaded)) = run.loaded
        /\ ArrivalOrder
        /\ Saved => IsSortedDesc(store)
        /\ (Saved /\ run.script = "process_pending_ipos") => store = run.sorted

\* a run saved a store in which an appended record moved ahead of an older
\* loaded record and stayed behind a loaded record of its own date
C6_Witness ==
    /\ Saved
    /\ run.sorted # run.unsorted
    /\ \E i \in 1..Len(run.loaded), j \in 1..Len(Appended) :
          run.loaded[i].ipo_date = Appended[j].ipo_date

\* C7: a run writes a changed ipos list to ipos.json only after it has
\* written a backup file holding the list as it loaded it
C7_BackupPrecedesWrite ==
    (Saved /\ store # run.loaded) =>
        /\ \E i, j \in 1..Len(run.events) :
              i < j /\ run.events[i] = "backup" /\ run.events[j] = "save"
        /\ backup = run.loaded

----------------------------------------------------------------------------
(* Properties of get_ipo_price_yfinance (SpecResolver) *)

\* the ladder of the price resolver: the frame, the column and the
\* price_source of each step, in order
Ladder(prov) ==
    << [h |-> prov.h14,    value |-> prov.h14.Open,     source |-> "open_price"],
       [h |-> prov.h14,    value |-> prov.h14.Close,    source |-> "close_price"],
       [h |-> prov.hmonth, value |-> prov.hmonth.Close, source |-> "month_close_price"],
       [h |-> prov.hmax,   value |-> prov.hmax.Open,    source |-> "first_available_open"],
       [h |-> prov.hmax,   value |-> prov.hmax.Close,   source |-> "first_available_close"] >>

\* step k finds a row with a strictly positive price
Usable(prov, k) == Ladder(prov)[k].h.kind = "rows" /\ Ladder(prov)[k].value > 0

\* step k is the first usable one and no query up to it raised
FirstUsable(prov, k) ==
    /\ Usable(prov, k)
    /\ \A j \in 1..k - 1 : ~Usable(prov, j)
    /\ \A j \in 1..k : Ladder(prov)[j].h.kind # "raise"

\* the call of get_ipo_price_yfinance got past the parsing of the date
Resolving == out.op = "get_ipo_price_yfinance" /\ out.ipo_date \in Dates

\* C8 as stated: the resolver returns the value of the first usable step of
\* the ladder with that step's price_source
C8_LadderValueReturned ==
    Resolving =>
        \A k \in 1..5 :
            FirstUsable(out.prov, k) =>
                /\ out.result.success
                /\ out.result.ipo_price = Ladder(out.prov)[k].value
                /\ out.result.price_source = Ladder(out.prov)[k].source

\* C8 as amended: the resolver returns the value of the first usable step of
\* the ladder rounded to 2 decimals (a whole number of cents), with that
\* step's price_source and that row's date; a positive open in the 14-day
\* window is returned as "open_price" whatever the later steps hold
C8_LadderOrder ==
    Resolving =>
        /\ \A k \in 1..5 :
              FirstUsable(out.prov, k) =>
                  /\ out.result.success
                  /\ out.result.ipo_price % 10 = 0
                  /\ out.result.ipo_price - Ladder(out.prov)[k].value \in -5..5
                  /\ out.result.price_source = Ladder(out.prov)[k].source
                  /\ out.result.actual_first_trade_date = Ladder(out.prov)[k].h.date
        /\ (out.prov.h14.kind = "rows" /\ out.prov.h14.Open > 0) =>
              /\ out.result.price_source = "open_price"
              /\ out.result.ipo_price - out.prov.h14.Open \in -5..5

\* the 14-day window has a positive open and a later step would give another
\* price
C8_Witness ==
    /\ Resolving
    /\ out.prov.h14.kind = "rows" /\ out.prov.h14.Open > 0
    /\ out.prov.h14.Close > 0 /\ out.prov.h14.Close # out.prov.h14.Open
    /\ out.prov.hmax.kind = "rows" /\ out.prov.hmax.Open > 0
    /\ out.prov.hmax.Open # out.prov.h14.Open
    /\ out.result.price_source = "open_price"

\* C9: the resolver returns success exactly when a ladder step found a
\* strictly positive price, then with ipo_price > 0, price_source and
\* actual_first_trade_date set and no error; when no step finds a usable row
\* it returns failure with no price and "No price data available"; a returned
\* price is never zero or negative
C9_OutcomeWellFormed ==
    Resolving =>
        /\ out.result.success <=> \E k \in 1..5 : FirstUsable(out.prov, k)
        /\ out.result.success =>
              /\ out.result.ipo_price > 0
              /\ out.result.price_source # "None"
              /\ out.result.actual_first_trade_date # None
              /\ out.result.error = "None"
        /\ (\A k \in 1..5 : Ladder(out.prov)[k].h.kind # "raise" /\ ~Usable(out.prov, k)) =>
              /\ ~out.result.success
              /\ out.result.ipo_price = None
              /\ out.result.error = "No price data available"
        /\ out.result.ipo_price # None => out.result.ipo_price > 0

----------------------------------------------------------------------------
(* Properties of check_stock_status (SpecStatus) *)

\* period k is the first to return a non-empty history and no call up to it
\* raised
FirstNonEmpty(src, k) ==
    /\ src.info = "ok"
    /\ src.short[k].kind = "rows"
    /\ \A j \in 1..k - 1 : src.short[j].kind = "empty"

\* C10 as stated: when a short-horizon window is non-empty the status is
\* active and current_price is the last close of the first non-empty window
C10_ActiveLastClose ==
    out.op = "check_stock_status" =>
        \A k \in 1..Len(Periods) :
            FirstNonEmpty(out.src, k) =>
                /\ out.result.status = "active"
                /\ out.result.current_price = out.src.short[k].Close

\* C10 as amended: when a short-horizon window is non-empty the status is
\* active and current_price is the last close of the first non-empty window
\* in the order 1d, 5d, 1mo, 3mo, rounded to 2 decimals
C10_ActiveRule ==
    /\ Periods = <<"1d", "5d", "1mo", "3mo">>
    /\ out.op = "check_stock_status" =>
        \A k \in 1..Len(Periods) :
            FirstNonEmpty(out.src, k) =>
                /\ out.result.status = "active"
                /\ out.result.current_price % 10 = 0
                /\ out.result.current_price - out.src.short[k].Close \in -5..5

\* the first non-empty window is not the first one queried and a wider
\* window has another last close
C10_Witness ==
    /\ out.op = "check_stock_status"
    /\ \E k \in 2..Len(Periods) - 1 :
          /\ FirstNonEmpty(out.src, k)
          /\ out.src.short[k + 1].kind = "rows"
          /\ out.src.short[k + 1].Close # out.src.short[k].Close
    /\ out.result.status = "active"

\* the info fetch returned and every short-horizon window came back empty
AllShortEmpty(src) ==
    /\ src.info = "ok"
    /\ \A k \in 1..Len(Periods) : src.short[k].kind = "empty"

\* C11: when the four short-horizon lookups return empty and nothing raises,
\* the status is delisted whether the lifetime history is empty, ends more
\* than 30 days ago, or ends 30 days ago or less
C11_DelistedRule ==
    out.op = "check_stock_status" =>
        (AllShortEmpty(out.src) /\ out.src.max.kind # "raise" =>
            out.result.status = "delisted")

\* the lifetime history is non-empty and its last trade is 30 days ago or less
C11_Witness ==
    /\ out.op = "check_stock_status"
    /\ AllShortEmpty(out.src)
    /\ out.src.max.kind = "rows"
    /\ out.src.now - out.src.max.date <= DelistDays
    /\ out.result.status = "delisted"

\* C12: a ticker delisted from a lifetime history that ends more than 30 days
\* ago carries the last close (to the cent) and the last traded date of that
\* history; the delisted result with no last_price and the message "No
\* trading data available" is returned only when the lifetime history is
\* empty
C12_DelistedPayload ==
    out.op = "check_stock_status" =>
        /\ (/\ AllShortEmpty(out.src)
            /\ out.src.max.kind = "rows"
            /\ out.src.now - out.src.max.date > DelistDays) =>
                /\ out.result.status = "delisted"
                /\ out.result.last_price - out.src.max.Close \in -5..5
                /\ out.result.last_trade_date = out.src.max.date
        /\ (/\ out.result.status = "delisted"
            /\ out.result.last_price = None
            /\ out.result.message = "No trading data available") =>
                out.src.max.kind = "empty"

\* an exception reaches the except branch of check_stock_status: the info
\* fetch raises, or a history call that is made raises
ExceptionRaised(src) ==
    \/ src.info = "raise"
    \/ /\ src.info = "ok"
       /\ \E k \in 1..Len(Periods) :
             /\ src.short[k].kind = "raise"
             /\ \A j \in 1..k - 1 : src.short[j].kind = "empty"
    \/ AllShortEmpty(src) /\ src.max.kind = "raise"

\* C13: when the info fetch, a short-horizon history call or the lifetime
\* history call raises, check_stock_status returns status unknown with no
\* current price and the error message, and get_current_price returns None
C13_ExceptionUnknown ==
    /\ (out.op = "check_stock_status" /\ ExceptionRaised(out.src)) =>
          /\ out.result.status = "unknown"
          /\ out.result.current_price = None
          /\ out.result.message = "Error"
    /\ (out.op = "get_current_price" /\ ExceptionRaised(out.src)) =>
          /\ out.result = None
          /\ out.result \notin {DELISTED, MERGED}

\* get_current_price was called and the lifetime history call, the last
\* call made, raised
C13_Witness ==
    /\ out.op = "get_current_price"
    /\ AllShortEmpty(out.src)
    /\ out.src.max.kind = "raise"
    /\ out.result = None

----------------------------------------------------------------------------
(* Properties of get_ipo_performance (SpecDashboard) *)

\* the status check_stock_status gives for the source of a performance call
StatusOf(o) == check_stock_status(o.ticker, o.src).status

\* the call got past the date parsing and the history of the IPO days
ReachedPrice(o) == o.ipo_date \in Dates /\ o.hist.kind # "raise"

ExactChange(r) == r.current_price - r.ipo_open_price

\* C16: for an active ticker price_change is current_price - ipo_open_price
\* and percent_change is price_change / ipo_open_price * 100 (the quotient
\* exists when ipo_open_price is not zero), each rounded to 2 decimals; with
\* ipo_open_price 34.00 and current_price 45.50 they are 11.50 and 33.82
C16_ActiveArithmetic ==
    (out.op = "get_ipo_performance" /\ out.result.status = "active") =>
        LET r == out.result
        IN  /\ r.price_change.kind = "num"
            /\ r.price_change.v % 10 = 0
            /\ r.price_change.v - ExactChange(r) \in -5..5
            /\ r.ipo_open_price > 0 =>
                  /\ r.percent_change.kind = "num"
                  /\ r.percent_change.v - (ExactChange(r) * 10000) \div r.ipo_open_price
                        \in {0, 1}
                  /\ 2 * (r.percent_change.v * r.ipo_open_price
                            - ExactChange(r) * 10000) \in
                        (0 - r.ipo_open_price)..r.ipo_open_price
            /\ (r.ipo_open_price = 34000 /\ r.current_price = 45500) =>
                  /\ r.price_change = Num(11500)
                  /\ r.percent_change = Num(3382)

\* the example of the claim: the first day opened at 34.00 and the last
\* close is 45.50
C16_Witness ==
    /\ out.op = "get_ipo_performance"
    /\ out.hist.kind = "rows"
    /\ out.result.status = "active"
    /\ out.result.ipo_open_price = 34000
    /\ out.result.current_price = 45500
    /\ out.result.percent_change = Num(3382)

\* the ipo_open_price a performance call derives: the rounded Open of the
\* first row of the history of the IPO days, or the stored ipo_price
DerivedOpen(o) == IF o.hist.kind = "rows" THEN Round2(o.hist.Open) ELSE o.ipo_price

\* the call reaches the division of line 195 with a zero ipo_open_price
DividesByZero(o) ==
    /\ ReachedPrice(o)
    /\ StatusOf(o) = "active"
    /\ DerivedOpen(o) = 0

\* C17: for a stored ipo_price > 0 and every price history the call never
\* divides by an ipo_open_price of zero, and it never returns a result
\* (numeric, infinite or an error entry) computed from a zero ipo_open_price
C17_NoZeroDivision ==
    (out.op = "get_ipo_performance" /\ out.ipo_price > 0) =>
        /\ ~DividesByZero(out)
        /\ out.result.percent_change.kind \notin {"inf", "nan"}
        /\ out.result.percent_change.kind = "num" => out.result.ipo_open_price # 0
        /\ out.result.error # "ZeroDivisionError"

----------------------------------------------------------------------------
(* Properties of find_missing_ipos.py (SpecFinnhub) *)

\* the pieces of a price string cut at its dashes
RECURSIVE SplitAtDash(_)
SplitAtDash(s) ==
    IF \A i \in 1..Len(s) : s[i] # "-" THEN <<s>>
    ELSE LET d == CHOOSE i \in 1..Len(s) : s[i] = "-" /\ \A j \in 1..i - 1 : s[j] # "-"
         IN  <<SubSeq(s, 1, d - 1)>> \o SplitAtDash(SubSeq(s, d + 1, Len(s)))

\* the reference rule: the upper bound of a range "a-b", the value of a
\* single value, 0 for anything else
ReferencePrice(price) ==
    IF price.kind = "None" THEN 0
    ELSE IF price.kind = "num" THEN (IF price.v > 0 THEN price.v ELSE 0)
    ELSE LET parts == SplitAtDash(price.str)
         IN  IF Len(parts) = 1 /\ ~FloatRaises(parts[1]) THEN FloatOf(parts[1])
             ELSE IF Len(parts) = 2 /\ ~FloatRaises(parts[1]) /\ ~FloatRaises(parts[2])
                  THEN IF FloatOf(parts[1]) > FloatOf(parts[2])
                       THEN FloatOf(parts[1]) ELSE FloatOf(parts[2])
             ELSE 0

\* C18: for every price the parsed price is that of the reference rule (to
\* the cent): the upper bound of a range, the value of a single value, 0 for
\* an empty, missing or malformed price, and the parsing never raises
C18_PriceParsing ==
    out.op = "normalize_finnhub_ipo" =>
        /\ ~out.raised
        /\ out.result.ipo_price = Round2(ReferencePrice(out.ipo.price))

\* C20: no entry of the list find_missing_ipos returns comes from a calendar
\* item whose status, lowercased, is withdrawn or postponed, and none has a
\* ticker that is among the existing tickers
C20_RejectedNeverPending ==
    (out.op = "find_missing_ipos" /\ ~out.raised) =>
        \A k \in 1..Len(out.result) :
           /\ Lower(out.result[k].status) \notin RejectedStatuses
           /\ out.result[k].ticker \notin out.existing_tickers
           /\ \E i \in 1..Len(out.finnhub_ipos) :
                 /\ ~out.finnhub_ipos[i].none
                 /\ out.result[k] = normalize_finnhub_ipo(out.finnhub_ipos[i])
                 /\ Lower(out.finnhub_ipos[i].status) \notin RejectedStatuses
                 /\ Upper(out.finnhub_ipos[i].symbol) \notin out.existing_tickers

\* the calendar holds a withdrawn item in mixed case and an item of an
\* existing ticker in lower case, next to one that is returned
C20_Witness ==
    /\ out.op = "find_missing_ipos"
    /\ ~out.raised
    /\ Len(out.result) = 1
    /\ \E i, j \in 1..Len(out.finnhub_ipos) :
          /\ out.finnhub_ipos[i].status = "Withdrawn"
          /\ Upper(out.finnhub_ipos[i].symbol) \notin out.existing_tickers
          /\ out.finnhub_ipos[j].status = "filed"
          /\ out.result[1].ticker = Upper(out.finnhub_ipos[j].symbol)

----------------------------------------------------------------------------
(* Properties of the batch of process_pending_ipos.py (Spec) *)

\* the resolver's answer for pending entry i of the run
Answer(i) ==
    get_ipo_price_yfinance(Upper(run.incoming[i].ticker), run.incoming[i].ipo_date,
                           run.provs[i])

\* entry i has a ticker and a date and its ticker was not in the loaded store
Fresh(i) ==
    /\ run.incoming[i].ticker # ""
    /\ run.incoming[i].ipo_date # 0
    /\ \A j \in 1..Len(run.loaded) :
          Upper(run.loaded[j].ticker) # Upper(run.incoming[i].ticker)

\* no earlier entry of the same ticker was accepted before entry i
NotYetAccepted(i) ==
    \A j \in 1..i - 1 :
       ~(/\ Upper(run.incoming[j].ticker) = Upper(run.incoming[i].ticker)
         /\ Fresh(j)
         /\ Answer(j).success)

AcceptedAt == {i \in 1..Len(run.incoming) : Fresh(i) /\ NotYetAccepted(i) /\ Answer(i).success}
FailedAt == {i \in 1..Len(run.incoming) : Fresh(i) /\ NotYetAccepted(i) /\ ~Answer(i).success}

\* the k-th smallest element of a set of indices
Nth(S, k) == CHOOSE i \in S : Cardinality({j \in S : j < i}) = k - 1

\* C19: a run of process_pending_ipos main completes whatever the resolver
\* answers for each entry; skipped + successful + failed is the number of
\* pending entries; the accepted and the failed entries are listed in input
\* order, each failed one with its ticker and the resolver's error
C19_BatchPartialSuccess ==
    run.script = "process_pending_ipos" =>
        /\ run.events[1] = "backup"
        /\ run.skipped + Len(run.successful) + Len(run.failed) = Len(run.incoming)
        /\ Len(run.successful) = Cardinality(AcceptedAt)
        /\ \A k \in 1..Len(run.successful) :
              run.successful[k].ticker = Upper(run.incoming[Nth(AcceptedAt, k)].ticker)
        /\ Len(run.failed) = Cardinality(FailedAt)
        /\ \A k \in 1..Len(run.failed) :
              /\ run.failed[k].ticker = Upper(run.incoming[Nth(FailedAt, k)].ticker)
              /\ run.failed[k].ipo_date = run.incoming[Nth(FailedAt, k)].ipo_date
              /\ run.failed[k].error = Answer(Nth(FailedAt, k)).error
        /\ run.failed # <<>> => run.events[Len(run.events)] = "save_failed"

\* a batch in which the data source raised for one entry and the entry
\* after it was still accepted
C19_Witness ==
    /\ run.script = "process_pending_ipos"
    /\ Len(run.incoming) = 2
    /\ run.provs[1].h14.kind = "raise"
    /\ Len(run.failed) = 1
    /\ Len(run.successful) = 1
    /\ run.failed[1].ticker = Upper(run.incoming[1].ticker)

\* C21: the record appended for an entry the resolver resolved has the
\* resolver's actual first trade date as ipo_date and the resolved price as
\* ipo_price, not the date and the price of the pending entry, and the saved
\* store holds it
C21_RecordFromResolver ==
    run.script = "process_pending_ipos" =>
        \A k \in 1..Len(run.successful) :
           LET i == Nth(AcceptedAt, k)
           IN  /\ Answer(i).success
               /\ run.successful[k].ipo_date = Answer(i).actual_first_trade_date
               /\ run.successful[k].ipo_date = run.provs[i].h14.date
               /\ run.successful[k].ipo_price = Answer(i).ipo_price
               /\ run.successful[k].ipo_price - run.provs[i].h14.Open \in -5..5
               /\ \E j \in 1..Len(store) : store[j] = run.successful[k]

\* an accepted entry whose first trade date and resolved price differ from
\* the date and the price of the pending entry
C21_Witness ==
    /\ run.script = "process_pending_ipos"
    /\ Len(run.successful) = 1
    /\ LET i == Nth(AcceptedAt, 1)
       IN  /\ run.successful[1].ipo_date # run.incoming[i].ipo_date
           /\ run.successful[1].ipo_price # run.incoming[i].ipo_price
           /\ \E j \in 1..Len(store) : store[j] = run.successful[1]

----------------------------------------------------------------------------
(* Properties of the tickers (SpecTicker) *)

\* str.strip() on the tickers of the model
Trim(s) == CASE s = " " -> ""
             [] s = " ab" -> "ab"
             [] s = " AB" -> "AB"
             [] OTHER -> s

\* uppercase, no blank at either end, not empty
IsNormalized(t) == t = Upper(t) /\ t = Trim(t) /\ t # ""

\* C22: every ticker find_missing_ipos returns and every ticker
\* process_pending_ipos appends to the store is uppercase without leading or
\* trailing whitespace; an entry whose ticker is empty once trimmed reaches
\* neither the pending list nor the store nor the resolver
C22_TickerNormalized ==
    /\ (out.op = "find_missing_ipos" /\ ~out.raised) =>
          \A k \in 1..Len(out.result) : IsNormalized(out.result[k].ticker)
    /\ run.script = "process_pending_ipos" =>
          /\ \A j \in 1..Len(store) : IsNormalized(store[j].ticker)
          /\ \A i \in AcceptedAt \cup FailedAt :
                Trim(run.incoming[i].ticker)

----------------------------------------------------------------------------
(* Properties of the caches (SpecSession) *)

\* the seconds an entry of the cache behind the last call lives
TtlOfLast == IF session.last.op = "get_current_price" THEN LiveTtl ELSE DataTtl

\* the last call found an entry younger than its ttl
LastWasHit ==
    /\ session.last.before.at # None
    /\ session.last.now - session.last.before.at < TtlOfLast

----------------------------------------------------------------------------
(* Properties of the queries of get_ipo_price_yfinance (SpecResolver) *)

\* the query q is among the calls of the resolver
Called(q) == \E n \in 1..Len(out.calls) : out.calls[n] = q

\* the query each step of the ladder reads
QueryOfStep == <<"14d", "14d", "month", "max", "max">>

\* C24: the month query is made only after the 14-day query gave no usable
\* row, the max query only after the month query gave none either, each
\* query at most once and in this order; once a step yields a strictly
\* positive price no further query is made
C24_LazyQueries ==
    out.op = "get_ipo_price_yfinance" =>
        /\ out.calls \in {<<>>, <<"14d">>, <<"14d", "month">>, <<"14d", "month", "max">>}
        /\ Called("month") =>
              /\ out.prov.h14.kind # "raise"
              /\ ~Usable(out.prov, 1) /\ ~Usable(out.prov, 2)
        /\ Called("max") =>
              /\ out.prov.hmonth.kind # "raise"
              /\ ~Usable(out.prov, 3)
        /\ \A k \in 1..5 :
              (Resolving /\ FirstUsable(out.prov, k)) =>
                  out.calls[Len(out.calls)] = QueryOfStep[k]
        /\ out.result.success =>
              \E k \in 1..5 :
                 /\ out.result.price_source = Ladder(out.prov)[k].source
                 /\ out.calls[Len(out.calls)] = QueryOfStep[k]

\* the 14-day row has a positive Close only, while the month and the max
\* period hold rows too: one query is made
C24_Witness ==
    /\ Resolving
    /\ out.prov.h14.kind = "rows" /\ out.prov.h14.Open = 0 /\ out.prov.h14.Close > 0
    /\ out.prov.hmonth.kind = "rows" /\ out.prov.hmonth.Close > 0
    /\ out.prov.hmax.kind = "rows"
    /\ out.result.success
    /\ out.calls = <<"14d">>

----------------------------------------------------------------------------
(* Properties of the outcome sets of process_pending_ipos.py (Spec) *)

\* C25: in one run of process_pending_ipos main no ticker is both appended
\* to the store and recorded in the failed entries, and no ticker is recorded
\* in the failed entries more than once
C25_AcceptedFailedDisjoint ==
    run.script = "process_pending_ipos" =>
        /\ \A a \in 1..Len(run.successful), f \in 1..Len(run.failed) :
              run.successful[a].ticker # run.failed[f].ticker
        /\ \A f, g \in 1..Len(run.failed) :
              run.failed[f].ticker = run.failed[g].ticker => f = g

----------------------------------------------------------------------------
(* Properties of fetch_all_ipos_in_range (SpecChunks) *)

\* the queries that ask for day d
Asking(d) == {n \in 1..Len(out.queries) : out.queries[n].from <= d /\ d <= out.queries[n].to}

\* C26: for start <= end in whole days the loop ends with every day of
\* start..end asked for by exactly one query, no query reaching more than 90
\* days past its first day, and the day end asked for
C26_ChunksCoverRange ==
    (/\ out.op = "fetch_all_ipos_in_range"
     /\ out.done
     /\ out.start % 2 = 0 /\ out.end % 2 = 0
     /\ out.start <= out.end) =>
        /\ \A d \in DayOf(out.start)..DayOf(out.end) : Cardinality(Asking(d)) = 1
        /\ \A n \in 1..Len(out.queries) :
              out.queries[n].to - out.queries[n].from <= ChunkDays
        /\ Asking(DayOf(out.end)) # {}

====
